---- MODULE Spec2Model ----
(***************************************************************************)
(* A model of the NoteWall maintenance scripts:                            *)
(*   add_file_to_xcode.py, add_resource_to_xcode.py  (manifest "add" runs) *)
(*   fix_xcode_resources.py                          (manifest "fix" run)  *)
(*   localize_app.py, fix_localization.py            (localization runs)   *)
(*                                                                         *)
(* The project manifest is a text blob.  It is modelled as a sequence of   *)
(* tokens: the two white-space characters the regular expressions of the   *)
(* scripts distinguish (newline, tab) are tokens of their own, and every   *)
(* other token is a piece of text that each regular expression of the      *)
(* scripts either contains whole or not at all (a section marker, an       *)
(* entry, "children = (", ");", ...).                                      *)
(***************************************************************************)
EXTENDS Integers, Sequences, FiniteSets, TLC

VARIABLES
    script,          \* the script of the current run
    pc,              \* position of the current run in its script
    diskExists,      \* whether the manifest file exists
    disk,            \* content of the manifest file
    before,          \* content of the manifest file when the run started
    content,         \* the blob in memory
    original_content,\* the blob as read
    file_name,       \* swift_file_name / file_name argument
    file_ref_id,     \* generated identifier of the file reference
    build_file_id,   \* generated identifier of the build file
    failed_step,     \* the step whose pattern did not match (0: none)
    removed_count,   \* lines removed by remove_ids_from_files
    opened,          \* the run opened the manifest for writing
    result,          \* return value of the script's function
    exitCode,        \* exit code of the process (-1: still running)
    runs,            \* finished runs
    prev,            \* the run that finished last: script, result, exit code, ...
    locFiles,        \* Localizable.strings of each language (localization runs)
    locBefore,       \* the language files when the localization run started
    lang_idx,        \* position in the language loop
    all_strings,     \* localize_app.main: the strings extracted from the Swift files
    complete_translations, \* localize_app.main: the dictionaries being built
    warnings,        \* localize_app.main: (language, phrase) pairs warned about
    applied,         \* the add steps applied to the blob, in the order applied
    read_back        \* what read_existing_translations returned, by language

manifestVars == <<script, pc, diskExists, disk, before, content, original_content,
                  file_name, file_ref_id, build_file_id, failed_step,
                  removed_count, opened, result, exitCode, runs, prev>>
locVars == <<locFiles, locBefore, lang_idx, all_strings, complete_translations,
            warnings, read_back>>
vars == <<manifestVars, locVars, applied>>

(***************************************************************************)
(* Bounds of the model.                                                    *)
(***************************************************************************)
MaxRuns == 2       \* runs of manifest scripts in one behaviour
MaxId == 2         \* identifiers uuid4 may produce: 1..MaxId

(***************************************************************************)
(* Tokens.                                                                 *)
(***************************************************************************)
Tok(kind) == [k |-> kind, id |-> 0, ref |-> 0, nm |-> "", x |-> ""]
Entry(kind, i, r, n, e) == [k |-> kind, id |-> i, ref |-> r, nm |-> n, x |-> e]

NL == Tok("NL")      \* "\n"
TAB == Tok("TAB")    \* "\t"

IsWs(t) == t.k \in {"NL", "TAB"}                       \* \s
HasCloseBrace(t) == t.k \in {"FREntry", "BFEntry", "CloseBrace"}   \* contains "}"

Indent(n) == [i \in 1..n |-> TAB]
TextLine(n, t) == Indent(n) \o <<t, NL>>

RECURSIVE Concat(_)
Concat(ss) == IF ss = <<>> THEN <<>> ELSE Head(ss) \o Concat(Tail(ss))

(***************************************************************************)
(* Identifiers.  uuid4 yields 24 upper-case hexadecimal characters; the    *)
(* group identifier add_resource_to_xcode.py looks for has 23 characters.  *)
(***************************************************************************)
KnownGroupId == 100                 \* "A5000002000000000000001"
OtherGroupId == KnownGroupId + 1               \* a 24-character group identifier
IdPool == 1..MaxId
Is24(i) == i # KnownGroupId         \* [A-Z0-9]{24} directly before " /* NoteWall */"

(***************************************************************************)
(* The manifests the runs start from.  A manifest has the sections Xcode   *)
(* writes, in Xcode's order: PBXBuildFile, PBXFileReference, PBXGroup,     *)
(* PBXResourcesBuildPhase, PBXSourcesBuildPhase.  Its shape says           *)
(*   ind     : tabs in front of the "End ... section" markers              *)
(*             (0 as Xcode writes them, 2 as add_file_to_xcode.py expects),*)
(*   missing : the part that is absent ("none": all are there),            *)
(*   gid     : the identifier of the NoteWall group,                       *)
(*   filled  : whether the sections and lists hold entries already,        *)
(*   phases  : the build phases of each kind (1; 2 when the project has a  *)
(*             second target with phases of its own, after the app's).     *)
(***************************************************************************)
Indents == {0, 2}
Parts == {"FR", "BF", "Grp", "Src", "Res"}
Shapes == {sh \in [ind : Indents, missing : Parts \cup {"none"},
                    gid : {KnownGroupId, OtherGroupId}, filled : BOOLEAN,
                    phases : {1, 2}] : sh.phases = 2 => sh.filled}

FREntry(i, n, ty) == Entry("FREntry", i, 0, n, ty)
BFEntry(i, r, n, ph) == Entry("BFEntry", i, r, n, ph)
ChildEntry(i, n) == Entry("ChildEntry", i, 0, n, "")
PhaseEntry(i, n, ph) == Entry("PhaseEntry", i, 0, n, ph)
GrpHdr(i, n) == Entry("GrpHdr", i, 0, n, "")

Section(beginKind, endKind, body, ind) ==
    <<Tok(beginKind), NL>> \o body \o Indent(ind) \o <<Tok(endKind), NL, NL>>

BuildFileSection(sh) ==
    Section("BeginBF", "EndBF",
            IF sh.filled
            THEN TextLine(2, BFEntry(11, 1, "ContentView.swift", "Sources"))
                 \o TextLine(2, BFEntry(14, 16, "Contents.json", "Resources"))
            ELSE <<>>,
            sh.ind)

FileReferenceSection(sh) ==
    Section("BeginFR", "EndFR",
            IF sh.filled
            THEN TextLine(2, FREntry(1, "ContentView.swift", "sourcecode.swift"))
            ELSE <<>>,
            sh.ind)

\* A group block: its header, "isa = PBXGroup;", the children list, "};".
GroupBlock(i, n, children) ==
    TextLine(2, GrpHdr(i, n))
    \o TextLine(3, Tok("IsaGroup"))
    \o TextLine(3, Tok("ChildrenOpen"))
    \o children
    \o TextLine(3, Tok("CloseParen"))
    \o TextLine(2, Tok("CloseBrace"))

\* The groups: the main group (it has no name, and lists the NoteWall group
\* and the Products group as its children), the NoteWall group, the Products
\* group.
GroupSection(sh) ==
    Section("BeginGrp", "EndGrp",
            GroupBlock(20, "", TextLine(4, ChildEntry(sh.gid, "NoteWall"))
                               \o TextLine(4, ChildEntry(21, "Products")))
            \o GroupBlock(sh.gid, "NoteWall",
                          IF sh.filled THEN TextLine(4, ChildEntry(1, "ContentView.swift"))
                          ELSE <<>>)
            \o GroupBlock(21, "Products", TextLine(4, ChildEntry(22, "NoteWall.app"))),
            sh.ind)

\* A build phase block: its header, its isa line, the files list, "};".
PhaseBlock(isaKind, files) ==
    TextLine(2, Tok("PhaseHdr"))
    \o TextLine(3, Tok(isaKind))
    \o TextLine(3, Tok("FilesOpen"))
    \o files
    \o TextLine(3, Tok("CloseParen"))
    \o TextLine(2, Tok("CloseBrace"))

\* The resources phase of the app and, behind it, that of the second target.
ResourcesSection(sh) ==
    Section("BeginRes", "EndRes",
            PhaseBlock("IsaRes",
                       IF sh.filled
                       THEN TextLine(4, PhaseEntry(12, "arrow.png", "Resources"))
                            \o TextLine(4, PhaseEntry(13, "Main.storyboard", "Resources"))
                            \o TextLine(4, PhaseEntry(14, "Contents.json", "Resources"))
                       ELSE <<>>)
            \o (IF sh.phases = 2
                THEN PhaseBlock("IsaRes",
                                TextLine(4, PhaseEntry(15, "logo-icon.png", "Resources")))
                ELSE <<>>),
            sh.ind)

\* The sources phase of the app and, behind it, that of the second target.
SourcesSection(sh) ==
    Section("BeginSrc", "EndSrc",
            PhaseBlock("IsaSrc",
                       IF sh.filled
                       THEN TextLine(4, PhaseEntry(11, "ContentView.swift", "Sources"))
                       ELSE <<>>)
            \o (IF sh.phases = 2
                THEN PhaseBlock("IsaSrc",
                                TextLine(4, PhaseEntry(18, "Widget.swift", "Sources")))
                ELSE <<>>),
            sh.ind)

Manifest(sh) ==
    (IF sh.missing = "BF" THEN <<>> ELSE BuildFileSection(sh))
    \o (IF sh.missing = "FR" THEN <<>> ELSE FileReferenceSection(sh))
    \o (IF sh.missing = "Grp" THEN <<>> ELSE GroupSection(sh))
    \o (IF sh.missing = "Res" THEN <<>> ELSE ResourcesSection(sh))
    \o (IF sh.missing = "Src" THEN <<>> ELSE SourcesSection(sh))

Manifests == {Manifest(sh) : sh \in Shapes}

(***************************************************************************)
(* Text helpers: str.split('\n'), '\n'.join, slicing.                      *)
(***************************************************************************)
Min(S) == CHOOSE i \in S : \A j \in S : i <= j

\* The first index from `from` on whose token has kind `kind`; 0 if none.
FirstKind(s, from, kind) ==
    IF \E i \in from..Len(s) : s[i].k = kind
    THEN CHOOSE i \in from..Len(s) :
            /\ s[i].k = kind
            /\ \A j \in from..(i - 1) : s[j].k # kind
    ELSE 0

\* Whether the tokens of s at i, i+1, ... have the kinds ks.
KindsAt(s, i, ks) ==
    /\ i >= 1
    /\ i + Len(ks) - 1 <= Len(s)
    /\ \A j \in 1..Len(ks) : s[i + j - 1].k = ks[j]

\* The first index from `from` on where the kinds ks start; 0 if none.
FirstKinds(s, from, ks) ==
    IF \E i \in from..Len(s) : KindsAt(s, i, ks)
    THEN CHOOSE i \in from..Len(s) :
            /\ KindsAt(s, i, ks)
            /\ \A j \in from..(i - 1) : ~KindsAt(s, j, ks)
    ELSE 0

\* A splice that puts the entry at the start of the blob.
InsertAtStart(s, pos, entry) == entry \o s

\* content[:pos] + entry + content[pos:], pos being the index of the first
\* token after the insertion.
InsertBefore(s, pos, entry) ==
    SubSeq(s, 1, pos - 1) \o entry \o SubSeq(s, pos, Len(s))

RECURSIVE SplitLines(_)
SplitLines(s) ==
    LET n == FirstKind(s, 1, "NL")
    IN  IF n = 0 THEN <<s>>
        ELSE <<SubSeq(s, 1, n - 1)>> \o SplitLines(SubSeq(s, n + 1, Len(s)))

RECURSIVE JoinLines(_)
JoinLines(ls) ==
    IF Len(ls) = 0 THEN <<>>
    ELSE IF Len(ls) = 1 THEN ls[1]
    ELSE ls[1] \o <<NL>> \o JoinLines(Tail(ls))

(***************************************************************************)
(* The regular expressions of the add scripts.  Each operator gives the    *)
(* match re.search finds (leftmost, the lazy groups as short as possible)  *)
(* as the index of the first token after group 2, where the scripts        *)
(* insert; 0 when the pattern does not match.                              *)
(***************************************************************************)

\* add_file_to_xcode.py:  (Begin)(.*?)(\t\tEnd)
TabSectionMatch(c, beginKind, endKind) ==
    LET b == FirstKind(c, 1, beginKind)
    IN  IF b = 0 THEN 0 ELSE FirstKinds(c, b + 1, <<"TAB", "TAB", endKind>>)

\* A section pattern whose match ends behind the closing marker.
WsSectionMatchPastEnd(c, beginKind, endKind) ==
    LET b == FirstKind(c, 1, beginKind)
        e == IF b = 0 THEN 0 ELSE FirstKind(c, b + 1, endKind)
    IN  IF e = 0 THEN 0 ELSE e + 1

\* add_resource_to_xcode.py:  (Begin\s*)(.*?)(\s*End)
\* Group 1 takes the white space after the marker; group 2 ends where only
\* white space is left before the first End marker.
WsSectionMatch(c, beginKind, endKind) ==
    LET b == FirstKind(c, 1, beginKind)
        e == IF b = 0 THEN 0 ELSE FirstKind(c, b + 1, endKind)
    IN  IF e = 0 THEN 0
        ELSE LET w == Min({i \in (b + 1)..e : ~IsWs(c[i])})
             IN  Min({q \in w..e : \A j \in q..(e - 1) : IsWs(c[j])})

\* The first "open" token after h that no "}" separates from h ([^}]*?);
\* 0 if none.
OpenInBlock(c, h, openKind) ==
    LET o == FirstKind(c, h + 1, openKind)
    IN  IF o = 0 \/ \E j \in (h + 1)..(o - 1) : HasCloseBrace(c[j]) THEN 0 ELSE o

\* add_file_to_xcode.py:
\*   ([A-Z0-9]{24}) /\* NoteWall \*/ = \{[^}]*?children = \((.*?)\);
\* The match as [start2, end2]: group 2 is content[start2 .. end2 - 1].
FileGroupMatch(c) ==
    LET close(h) == LET o == OpenInBlock(c, h, "ChildrenOpen")
                    IN  IF o = 0 THEN 0 ELSE FirstKind(c, o + 1, "CloseParen")
        H == {h \in 1..Len(c) : /\ c[h].k = "GrpHdr"
                                /\ c[h].nm = "NoteWall"
                                /\ Is24(c[h].id)
                                /\ close(h) # 0}
    IN  IF H = {} THEN [start2 |-> 0, end2 |-> 0]
        ELSE [start2 |-> OpenInBlock(c, Min(H), "ChildrenOpen") + 1, end2 |-> close(Min(H))]

\* A group pattern that takes the children list of the first group of the
\* blob, whatever its identifier and name.
ResourceGroupMatchAnyGroup(c) ==
    LET close(h) == LET o == FirstKind(c, h + 1, "ChildrenOpen")
                    IN  IF o = 0 THEN 0 ELSE FirstKind(c, o + 1, "CloseParen")
        H == {h \in 1..Len(c) : c[h].k = "GrpHdr" /\ close(h) # 0}
    IN  IF H = {} THEN [start2 |-> 0, end2 |-> 0]
        ELSE [start2 |-> FirstKind(c, Min(H) + 1, "ChildrenOpen") + 1, end2 |-> close(Min(H))]

\* add_resource_to_xcode.py:
\*   (A5000002000000000000001)\s*/\* NoteWall \*/\s*=\s*\{.*?children\s*=\s*\((.*?)\);
ResourceGroupMatch(c) ==
    LET close(h) == LET o == FirstKind(c, h + 1, "ChildrenOpen")
                    IN  IF o = 0 THEN 0 ELSE FirstKind(c, o + 1, "CloseParen")
        H == {h \in 1..Len(c) : /\ c[h].k = "GrpHdr"
                                /\ c[h].nm = "NoteWall"
                                /\ c[h].id = KnownGroupId
                                /\ close(h) # 0}
    IN  IF H = {} THEN [start2 |-> 0, end2 |-> 0]
        ELSE [start2 |-> FirstKind(c, Min(H) + 1, "ChildrenOpen") + 1, end2 |-> close(Min(H))]

\* A sources pattern that takes the files list of the first build phase of
\* the blob, whichever phase it is.
SourcesMatchAnyPhase(c) ==
    LET close(i) == LET o == OpenInBlock(c, i, "FilesOpen")
                    IN  IF o = 0 THEN 0
                        ELSE FirstKinds(c, o + 1, <<"NL", "TAB", "TAB", "TAB", "CloseParen">>)
        I == {i \in 1..Len(c) : c[i].k \in {"IsaSrc", "IsaRes"} /\ close(i) # 0}
    IN  IF I = {} THEN 0 ELSE close(Min(I))

\* add_file_to_xcode.py:
\*   (isa = PBXSourcesBuildPhase;[^}]*?files = \()(.*?)(\n\t\t\t\);)
SourcesMatch(c) ==
    LET close(i) == LET o == OpenInBlock(c, i, "FilesOpen")
                    IN  IF o = 0 THEN 0
                        ELSE FirstKinds(c, o + 1, <<"NL", "TAB", "TAB", "TAB", "CloseParen">>)
        I == {i \in 1..Len(c) : c[i].k = "IsaSrc" /\ close(i) # 0}
    IN  IF I = {} THEN 0 ELSE close(Min(I))

\* A resources pattern that takes the files list of the last resources
\* build phase of the blob.
ResourcesMatchLastPhase(c) ==
    LET close(i) == LET o == OpenInBlock(c, i, "FilesOpen")
                    IN  IF o = 0 THEN 0 ELSE FirstKind(c, o + 1, "CloseParen")
        I == {i \in 1..Len(c) : c[i].k = "IsaRes" /\ close(i) # 0}
    IN  IF I = {} THEN 0 ELSE close(CHOOSE i \in I : \A j \in I : j <= i)

\* add_resource_to_xcode.py:
\*   (isa = PBXResourcesBuildPhase;[^}]*?files = \()(.*?)(\);)
ResourcesMatch(c) ==
    LET close(i) == LET o == OpenInBlock(c, i, "FilesOpen")
                    IN  IF o = 0 THEN 0 ELSE FirstKind(c, o + 1, "CloseParen")
        I == {i \in 1..Len(c) : c[i].k = "IsaRes" /\ close(i) # 0}
    IN  IF I = {} THEN 0 ELSE close(Min(I))

(***************************************************************************)
(* The entries the add scripts build (their f-strings).                    *)
(***************************************************************************)
PhaseOf(sc) == IF sc = "add_file" THEN "Sources" ELSE "Resources"
TypeOf(sc) == IF sc = "add_file" THEN "sourcecode.swift" ELSE "text.xml"

\* A build-file entry that takes the identifier of the file reference as
\* its own.
build_file_entry_reusing_id(sc, bid, fid, name) ==
    <<TAB, TAB, BFEntry(fid, fid, name, PhaseOf(sc)), NL>>

file_ref_entry(sc, fid, name) ==
    <<TAB, TAB, FREntry(fid, name, TypeOf(sc)), NL>>
build_file_entry(sc, bid, fid, name) ==
    <<TAB, TAB, BFEntry(bid, fid, name, PhaseOf(sc)), NL>>
children_entry(fid, name) ==
    <<NL, TAB, TAB, TAB, TAB, ChildEntry(fid, name)>>
phase_entry(sc, bid, name) ==
    <<NL, TAB, TAB, TAB, TAB, PhaseEntry(bid, name, PhaseOf(sc))>>

(***************************************************************************)
(* The four steps of an add run, as functions of the blob: the place the   *)
(* step's pattern matches (0: no match) and the blob after the splice.     *)
(***************************************************************************)
StepMatch(sc, step, c) ==
    CASE step = 1 -> IF sc = "add_file" THEN TabSectionMatch(c, "BeginFR", "EndFR")
                     ELSE WsSectionMatch(c, "BeginFR", "EndFR")
      [] step = 2 -> IF sc = "add_file" THEN TabSectionMatch(c, "BeginBF", "EndBF")
                     ELSE WsSectionMatch(c, "BeginBF", "EndBF")
      [] step = 3 -> IF sc = "add_file" THEN FileGroupMatch(c).end2
                     ELSE ResourceGroupMatch(c).end2
      [] step = 4 -> IF sc = "add_file" THEN SourcesMatch(c) ELSE ResourcesMatch(c)

\* A splice of step 3 that puts the new child in the place of the children.
GroupSpliceReplacing(c, m, fid, name) ==
    SubSeq(c, 1, m.start2 - 1) \o children_entry(fid, name) \o SubSeq(c, m.end2, Len(c))

GroupSplice(c, m, fid, name) ==
    LET children_content == SubSeq(c, m.start2, m.end2 - 1)
    IN  SubSeq(c, 1, m.start2 - 1) \o children_content \o children_entry(fid, name)
        \o SubSeq(c, m.end2, Len(c))

StepSplice(sc, step, c, fid, bid, name) ==
    CASE step = 1 -> InsertBefore(c, StepMatch(sc, 1, c), file_ref_entry(sc, fid, name))
      [] step = 2 -> InsertBefore(c, StepMatch(sc, 2, c), build_file_entry(sc, bid, fid, name))
      [] step = 3 -> GroupSplice(c, IF sc = "add_file" THEN FileGroupMatch(c)
                                    ELSE ResourceGroupMatch(c), fid, name)
      [] step = 4 -> InsertBefore(c, StepMatch(sc, 4, c), phase_entry(sc, bid, name))

(***************************************************************************)
(* fix_xcode_resources.py                                                  *)
(***************************************************************************)
\* File names one of asset_file_patterns matches.
AssetNames == {"arrow.png", "logo-icon.png", "FAITHWALL.png"}

\* The identifiers re.finditer collects: of the PBXBuildFile entries of
\* "Contents.json in Resources", and of every "<id> /* <asset> in Resources */".
ids_to_remove(c) ==
    {c[i].id : i \in {j \in 1..Len(c) : /\ c[j].k = "BFEntry"
                                        /\ c[j].nm = "Contents.json"
                                        /\ c[j].x = "Resources"}}
    \cup
    {c[i].id : i \in {j \in 1..Len(c) : /\ c[j].k \in {"BFEntry", "PhaseEntry"}
                                        /\ c[j].nm \in AssetNames
                                        /\ c[j].x = "Resources"}}

\* A test that removes every line that holds an entry "in Resources".
remove_any_resource_line(line, ids) ==
    \E j \in 1..Len(line) : line[j].k \in {"BFEntry", "PhaseEntry"} /\ line[j].x = "Resources"

\* id_to_remove in line and 'in Resources' in line, for some id_to_remove
should_remove(line, ids) ==
    /\ \E j \in 1..Len(line) : line[j].id \in ids \/ line[j].ref \in ids
    /\ \E j \in 1..Len(line) : line[j].k \in {"BFEntry", "PhaseEntry"} /\ line[j].x = "Resources"

\* remove_ids_from_files leaving the line loop at the first line it removes.
remove_first_only(files_content, ids) ==
    LET lines == SplitLines(files_content)
        R == {i \in 1..Len(lines) : should_remove(lines[i], ids)}
        kept_lines == IF R = {} THEN lines
                      ELSE SubSeq(lines, 1, Min(R) - 1) \o SubSeq(lines, Min(R) + 1, Len(lines))
    IN  [text |-> JoinLines(kept_lines), removed |-> Len(lines) - Len(kept_lines)]

\* remove_ids_from_files on group 3 of a match: the new files_content and
\* removed_count.
remove_ids_from_files(files_content, ids) ==
    LET lines == SplitLines(files_content)
        keep(line) == ~should_remove(line, ids)
        kept_lines == SelectSeq(lines, keep)
    IN  [text |-> JoinLines(kept_lines), removed |-> Len(lines) - Len(kept_lines)]

\* A section pattern whose group 3 is greedy: it ends at the last ");" of
\* the section.
ResourcesSectionMatchGreedy(c, from) ==
    LET b == FirstKind(c, from, "BeginRes")
        f == IF b = 0 THEN 0 ELSE FirstKind(c, b + 1, "FilesOpen")
        e == IF f = 0 THEN 0 ELSE FirstKind(c, f + 1, "EndRes")
        P == IF e = 0 THEN {} ELSE {q \in (f + 1)..(e - 1) : c[q].k = "CloseParen"}
    IN  IF P = {} THEN [f |-> 0, p |-> 0, e |-> 0]
        ELSE [f |-> f, p |-> CHOOSE q \in P : \A r \in P : r <= q, e |-> e]

\* resources_section_pattern from index `from` on:
\*   (Begin PBXResourcesBuildPhase section.*?)(files = \()(.*?)(\);)(.*?End ... section)
\* as [f, p, e]: the indexes of "files = (", of ");" and of the End marker;
\* f = 0 when there is no match.
ResourcesSectionMatch(c, from) ==
    LET b == FirstKind(c, from, "BeginRes")
        f == IF b = 0 THEN 0 ELSE FirstKind(c, b + 1, "FilesOpen")
        p == IF f = 0 THEN 0 ELSE FirstKind(c, f + 1, "CloseParen")
        e == IF p = 0 THEN 0 ELSE FirstKind(c, p + 1, "EndRes")
    IN  IF e = 0 THEN [f |-> 0, p |-> 0, e |-> 0] ELSE [f |-> f, p |-> p, e |-> e]

\* re.sub(resources_section_pattern, remove_ids_from_files, content): every
\* match, left to right, has its group 3 replaced.  Gives the new text of
\* content from index `from` on, and the lines removed.
RECURSIVE SubFrom(_, _, _)
SubFrom(c, from, ids) ==
    LET m == ResourcesSectionMatch(c, from)
    IN  IF m.f = 0 THEN [text |-> SubSeq(c, from, Len(c)), removed |-> 0]
        ELSE LET r == remove_ids_from_files(SubSeq(c, m.f + 1, m.p - 1), ids)
                 rest == SubFrom(c, m.e + 1, ids)
             IN  [text |-> SubSeq(c, from, m.f) \o r.text \o SubSeq(c, m.p, m.e)
                           \o rest.text,
                  removed |-> r.removed + rest.removed]

FixSub(c) == SubFrom(c, 1, ids_to_remove(c))

(***************************************************************************)
(* The runs.                                                               *)
(***************************************************************************)
AddScripts == {"add_file", "add_resource"}
ManifestScripts == AddScripts \cup {"fix_xcode_resources"}

\* The file name each script's __main__ passes.
MainFileName(sc) ==
    CASE sc = "add_file" -> "WhatsNewView.swift"
      [] sc = "add_resource" -> "PrivacyInfo.xcprivacy"
      [] OTHER -> ""

\* What a failed write leaves in the file open(path, 'w') has truncated: a
\* proper prefix of the blob.
PartialWrites(c) == {SubSeq(c, 1, n) : n \in {0, Len(c) \div 2}}

\* The record of a finished run.
RunRecord(sc, res, code, rem, op, wr, un) ==
    [script |-> sc, result |-> res, exit |-> code, removed |-> rem, opened |-> op,
     written |-> wr, unchanged |-> un]
NoRun == RunRecord("none", "none", -1, 0, FALSE, FALSE, FALSE)

LocIdle == /\ locFiles = <<>>
           /\ read_back = <<>>
           /\ locBefore = <<>>
           /\ lang_idx = 0
           /\ all_strings = {}
           /\ complete_translations = <<>>
           /\ warnings = {}

Init ==
    /\ script = "none"
    /\ pc = "idle"
    /\ \/ diskExists = TRUE /\ disk \in Manifests
       \/ diskExists = FALSE /\ disk = <<>>
    /\ before = <<>>
    /\ content = <<>>
    /\ original_content = <<>>
    /\ file_name = ""
    /\ file_ref_id = 0
    /\ build_file_id = 0
    /\ failed_step = 0
    /\ removed_count = 0
    /\ opened = FALSE
    /\ result = "none"
    /\ exitCode = -1
    /\ runs = 0
    /\ prev = NoRun
    /\ LocIdle
    /\ applied = <<>>

\* A script is started.
Start(sc) ==
    /\ pc = "idle"
    /\ runs < MaxRuns
    /\ script' = sc
    /\ pc' = "read"
    /\ before' = disk
    /\ file_name' = MainFileName(sc)
    /\ exitCode' = -1
    /\ UNCHANGED <<diskExists, disk, content, original_content, file_ref_id,
                   build_file_id, failed_step, removed_count, opened, result,
                   runs, prev, locVars, applied>>

\* A read that takes a missing file for an empty one and goes on.
AddReadAnyway ==
    /\ pc = "read"
    /\ script \in AddScripts
    /\ content' = disk
    /\ original_content' = disk
    /\ \E a \in IdPool, b \in IdPool :
         /\ file_ref_id' = a
         /\ build_file_id' = b
    /\ pc' = "step1"
    /\ UNCHANGED <<script, diskExists, disk, before, file_name, failed_step,
                   removed_count, opened, result, exitCode, runs, prev, locVars, applied>>

\* add scripts, lines 9-19: read the file (FileNotFoundError is caught) and
\* generate the two identifiers.
AddRead ==
    /\ pc = "read"
    /\ script \in AddScripts
    /\ IF diskExists
       THEN /\ content' = disk
            /\ original_content' = disk
            /\ \E a \in IdPool, b \in IdPool :
                 /\ file_ref_id' = a
                 /\ build_file_id' = b
            /\ pc' = "step1"
            /\ UNCHANGED result
       ELSE /\ result' = "False"
            /\ pc' = "exit"
            /\ UNCHANGED <<content, original_content, file_ref_id, build_file_id>>
    /\ UNCHANGED <<script, diskExists, disk, before, file_name, failed_step,
                   removed_count, opened, exitCode, runs, prev, locVars, applied>>

StepPc == <<"step1", "step2", "step3", "step4">>

\* An add step that saves the blob to the file after its splice.
AddStepSaving(n) ==
    /\ pc = StepPc[n]
    /\ script \in AddScripts
    /\ IF StepMatch(script, n, content) = 0
       THEN /\ result' = "False"
            /\ failed_step' = n
            /\ pc' = "exit"
            /\ UNCHANGED <<content, disk>>
       ELSE /\ content' = StepSplice(script, n, content, file_ref_id, build_file_id,
                                     file_name)
            /\ disk' = content'
            /\ pc' = IF n = 4 THEN "open" ELSE StepPc[n + 1]
            /\ UNCHANGED <<result, failed_step>>
    /\ UNCHANGED <<script, diskExists, before, original_content, file_name,
                   file_ref_id, build_file_id, removed_count, opened, exitCode,
                   runs, prev, locVars, applied>>

\* An add step that leaves the blob as it is when the blob holds an entry of
\* the step's kind for the file name already.
AddStepOnce(n) ==
    /\ pc = StepPc[n]
    /\ script \in AddScripts
    /\ IF StepMatch(script, n, content) = 0
       THEN /\ result' = "False"
            /\ failed_step' = n
            /\ pc' = "exit"
            /\ UNCHANGED content
       ELSE /\ content' =
                 IF \E j \in 1..Len(content) :
                       /\ content[j].k = <<"FREntry", "BFEntry", "ChildEntry", "PhaseEntry">>[n]
                       /\ content[j].nm = file_name
                 THEN content
                 ELSE StepSplice(script, n, content, file_ref_id, build_file_id, file_name)
            /\ pc' = IF n = 4 THEN "open" ELSE StepPc[n + 1]
            /\ UNCHANGED <<result, failed_step>>
    /\ UNCHANGED <<script, diskExists, disk, before, original_content, file_name,
                   file_ref_id, build_file_id, removed_count, opened, exitCode,
                   runs, prev, locVars, applied>>

\* add scripts, steps 1-4: search the step's pattern; return False when it
\* does not match, splice the entry into the blob in memory when it does.

AddStep(n) ==
    /\ pc = StepPc[n]
    /\ script \in AddScripts
    /\ IF StepMatch(script, n, content) = 0
       THEN /\ result' = "False"
            /\ failed_step' = n
            /\ pc' = "exit"
            /\ UNCHANGED content
       ELSE /\ content' = StepSplice(script, n, content, file_ref_id, build_file_id,
                                     file_name)
            /\ pc' = IF n = 4 THEN "open" ELSE StepPc[n + 1]
            /\ UNCHANGED <<result, failed_step>>
    /\ UNCHANGED <<script, diskExists, disk, before, original_content, file_name,
                   file_ref_id, build_file_id, removed_count, opened, exitCode,
                   runs, prev, locVars, applied>>

\* The outcome of an exception, by script: the add scripts catch it and
\* return False, fix_xcode_project lets it propagate.
OnException(sc) == IF sc \in AddScripts THEN "False" ELSE "raised"

\* open(path, 'w'): the file is created or truncated, or open raises and the
\* file is left as it is.
OpenForWriting ==
    /\ pc = "open"
    /\ \/ /\ disk' = <<>>
          /\ diskExists' = TRUE
          /\ opened' = TRUE
          /\ pc' = "write"
          /\ UNCHANGED result
       \/ /\ result' = OnException(script)
          /\ pc' = "exit"
          /\ UNCHANGED <<disk, diskExists, opened>>
    /\ UNCHANGED <<script, before, content, original_content, file_name, file_ref_id,
                   build_file_id, failed_step, removed_count, exitCode, runs, prev,
                   locVars, applied>>

\* A write-back that opens the file again when the write has failed.
WriteBackReopening ==
    /\ pc = "write"
    /\ \/ /\ disk' = content
          /\ result' = "True"
          /\ pc' = "exit"
       \/ /\ disk' \in PartialWrites(content)
          /\ pc' = "open"
          /\ UNCHANGED result
    /\ UNCHANGED <<script, diskExists, before, content, original_content, file_name,
                   file_ref_id, build_file_id, failed_step, removed_count, opened,
                   exitCode, runs, prev, locVars, applied>>

\* f.write(content) and the close of the file: the blob is in the file, or
\* the write raises and the file holds a part of it.
WriteBack ==
    /\ pc = "write"
    /\ \/ /\ disk' = content
          /\ result' = "True"
       \/ /\ disk' \in PartialWrites(content)
          /\ result' = OnException(script)
    /\ pc' = "exit"
    /\ UNCHANGED <<script, diskExists, before, content, original_content, file_name,
                   file_ref_id, build_file_id, failed_step, removed_count, opened,
                   exitCode, runs, prev, locVars, applied>>

\* fix_xcode_project, lines 13-16: read the file; nothing catches the error
\* of a missing file.
FixRead ==
    /\ pc = "read"
    /\ script = "fix_xcode_resources"
    /\ IF diskExists
       THEN /\ content' = disk
            /\ original_content' = disk
            /\ pc' = "sub"
            /\ UNCHANGED result
       ELSE /\ result' = "raised"
            /\ pc' = "exit"
            /\ UNCHANGED <<content, original_content>>
    /\ UNCHANGED <<script, diskExists, disk, before, file_name, file_ref_id,
                   build_file_id, failed_step, removed_count, opened, exitCode,
                   runs, prev, locVars, applied>>

\* fix_xcode_project, lines 20-93: collect ids_to_remove and apply re.sub.
FixSubstitute ==
    /\ pc = "sub"
    /\ content' = FixSub(content).text
    /\ removed_count' = FixSub(content).removed
    /\ pc' = "compare"
    /\ UNCHANGED <<script, diskExists, disk, before, original_content, file_name,
                   file_ref_id, build_file_id, failed_step, opened, result,
                   exitCode, runs, prev, locVars, applied>>

\* A write-back that does not compare.
FixWritesAlways(c, orig) == TRUE

\* fix_xcode_project, lines 95-97: whether the run goes on to write.
FixWrites(c, orig) == c # orig

FixCompare ==
    /\ pc = "compare"
    /\ IF FixWrites(content, original_content)
       THEN pc' = "open" /\ UNCHANGED result
       ELSE pc' = "exit" /\ result' = "False"
    /\ UNCHANGED <<script, diskExists, disk, before, content, original_content,
                   file_name, file_ref_id, build_file_id, failed_step,
                   removed_count, opened, exitCode, runs, prev, locVars, applied>>

\* A __main__ that ends with exit code 0 whatever the function returned.
ExitCodeIgnoringResult(res) == IF res = "raised" THEN 1 ELSE 0

\* __main__: sys.exit(0 if success else 1) in the add scripts; sys.exit(1)
\* unless success in fix_xcode_resources.py; an exception nothing catches
\* ends the interpreter with exit code 1.
ExitCodeOf(res) == IF res = "True" THEN 0 ELSE 1

Exit ==
    /\ pc = "exit"
    /\ script \in ManifestScripts
    /\ exitCode' = ExitCodeOf(result)
    /\ pc' = "idle"
    /\ runs' = runs + 1
    /\ prev' = RunRecord(script, result, ExitCodeOf(result), removed_count, opened,
                         opened /\ disk = content, content = original_content)
    \* the memory of the process is gone with it
    /\ before' = <<>>
    /\ content' = <<>>
    /\ original_content' = <<>>
    /\ file_name' = ""
    /\ file_ref_id' = 0
    /\ build_file_id' = 0
    /\ failed_step' = 0
    /\ removed_count' = 0
    /\ opened' = FALSE
    /\ result' = "none"
    /\ UNCHANGED <<script, diskExists, disk, locVars, applied>>

Next ==
    \/ \E sc \in ManifestScripts : Start(sc)
    \/ AddRead
    \/ \E n \in 1..4 : AddStep(n)
    \/ OpenForWriting
    \/ WriteBack
    \/ FixRead
    \/ FixSubstitute
    \/ FixCompare
    \/ Exit

Spec == Init /\ [][Next]_vars

\* The steps of an add run that has started.  The add scripts are
\* straight-line code: a process that has started takes its next step.
AddRunStep ==
    /\ script \in AddScripts
    /\ \/ AddRead
       \/ \E n \in 1..4 : AddStep(n)
       \/ OpenForWriting
       \/ WriteBack
       \/ Exit

FairSpec == Spec /\ WF_vars(AddRunStep)

(***************************************************************************)
(* The four steps of an add run as functions of the blob, applied in any   *)
(* order to a manifest, with the identifiers and the file name of a run.   *)
(***************************************************************************)
\* The steps from step n on, in the order of the scripts.
RECURSIVE SpliceFrom(_, _, _, _, _, _)
SpliceFrom(sc, n, c, fid, bid, name) ==
    IF n > 4 \/ StepMatch(sc, n, c) = 0 THEN c
    ELSE SpliceFrom(sc, n + 1, StepSplice(sc, n, c, fid, bid, name), fid, bid, name)

OrderInit ==
    /\ script \in AddScripts
    /\ pc = "splice"
    /\ diskExists = TRUE
    /\ disk \in Manifests
    /\ before = disk
    /\ content = disk
    /\ original_content = disk
    /\ file_name = MainFileName(script)
    /\ file_ref_id \in IdPool
    /\ build_file_id \in IdPool
    /\ failed_step = 0
    /\ removed_count = 0
    /\ opened = FALSE
    /\ result = "none"
    /\ exitCode = -1
    /\ runs = 0
    /\ prev = NoRun
    /\ LocIdle
    /\ applied = <<>>

\* Step n, which was not applied yet, is applied to the blob: its pattern is
\* searched and its entry spliced in, as in AddStep.
OrderStep(n) ==
    /\ pc = "splice"
    /\ \A i \in 1..Len(applied) : applied[i] # n
    /\ IF StepMatch(script, n, content) = 0
       THEN /\ result' = "False"
            /\ failed_step' = n
            /\ pc' = "exit"
            /\ UNCHANGED <<content, applied>>
       ELSE /\ content' = StepSplice(script, n, content, file_ref_id, build_file_id,
                                     file_name)
            /\ applied' = Append(applied, n)
            /\ pc' = IF Len(applied) = 3 THEN "exit" ELSE "splice"
            /\ UNCHANGED <<result, failed_step>>
    /\ UNCHANGED <<script, diskExists, disk, before, original_content, file_name,
                   file_ref_id, build_file_id, removed_count, opened, exitCode,
                   runs, prev, locVars>>

OrderNext == \E n \in 1..4 : OrderStep(n)

OrderSpec == OrderInit /\ [][OrderNext]_vars

(***************************************************************************)
(* The localization scripts.  A Localizable.strings file is a sequence of  *)
(* lines: a pair  "key" = "value";  a comment or MARK line, or a blank     *)
(* line.  The scripts search the text of a file, not its lines: a comment  *)
(* line that holds the text of a pair is found like the pair.              *)
(***************************************************************************)
Langs == <<"en", "de", "es", "fr">>
TargetLangs == {"de", "es", "fr"}

Pair(key, val) == [k |-> "pair", key |-> key, val |-> val]
Comment(text) == [k |-> "comment", key |-> text, val |-> ""]
\* A comment line that holds the text of a pair:  // "key" = "value";
Quoted(key, val) == [k |-> "quoted", key |-> key, val |-> val]
Blank == [k |-> "blank", key |-> "", val |-> ""]
File(lines) == [exists |-> TRUE, lines |-> lines]
NoFile == [exists |-> FALSE, lines |-> <<>>]
Range(f) == {f[i] : i \in DOMAIN f}

\* TRANSLATIONS, the entries of the phrases of the model.
TRANSLATIONS ==
    [de |-> ("Cancel" :> "Abbrechen" @@ "Text Style" :> "Textstil"),
     es |-> ("Cancel" :> "Cancelar" @@ "Text Style" :> "Estilo de texto"),
     fr |-> ("Cancel" :> "Annuler" @@ "Text Style" :> "Style de texte")]

\* sorted(): the strings of the model in code point order.
SortOrder == <<"%lld times", "42", "?", "Cancel", "Error: %@", "Frobnicate",
               "Text Style", "cancel">>
Sorted(keys) == LET in(x) == x \in keys IN SelectSeq(SortOrder, in)

\* main, the filter of all_strings: len(s) > 1, not s.isdigit(), and not one
\* of "", " ", "?", "  ".
OneCharStrings == {"", " ", "?"}
DigitStrings == {"42"}
meaningful_strings(strs) ==
    {st \in strs : /\ st \notin OneCharStrings
                   /\ st \notin DigitStrings
                   /\ st \notin {"", " ", "?", "  "}}

\* The phrase of the model that holds double quotes, and str.replace('"',
\* '\\"') on the phrases of the model.
QuotePhrase == "Say \"hi\""
escape(str) == IF str = QuotePhrase THEN "Say \\\"hi\\\"" ELSE str

\* "([^"]+)"\s*=\s*"([^"]+)";  matches the text of a pair whose key and value
\* are not empty and hold no double quote, and nothing in the text of a pair
\* with an empty or an escaped key or value.
Matches(line) ==
    /\ line.k \in {"pair", "quoted"}
    /\ \A str \in {line.key, line.val} : str \notin {"", QuotePhrase, escape(QuotePhrase)}

\* read_existing_translations: {} for a missing file, else every match of
\* the pattern in the text of the file, a later match replacing an earlier
\* one of the same key.
read_existing_translations(file) ==
    IF ~file.exists THEN <<>>
    ELSE LET P == {i \in 1..Len(file.lines) : Matches(file.lines[i])}
             last(key) == CHOOSE i \in P : /\ file.lines[i].key = key
                                           /\ \A j \in P : file.lines[j].key = key => j <= i
         IN  [key \in {file.lines[i].key : i \in P} |-> file.lines[last(key)].val]

\* write_localizable_file: the header, then each category that has keys as a
\* MARK line, its pairs in sorted order and a blank line.
categories ==
    << [name |-> "Common UI Elements",
        keywords |-> {"Continue", "Cancel", "Delete", "Done", "Close", "OK", "Skip",
                      "Next", "Yes", "No", "Send", "Apply", "Save"}],
       [name |-> "Loading States",
        keywords |-> {"Loading...", "Sending...", "Generating..."}],
       [name |-> "Home Screen",
        keywords |-> {"No notes yet", "Add a note below to get started",
                      "Wallpaper Not Showing?"}],
       [name |-> "Settings",
        keywords |-> {"Settings", "Wallpaper Settings", "Text Style", "Help & Support"}],
       [name |-> "Onboarding",
        keywords |-> {"Welcome to NoteWall", "Grant Permissions First",
                      "Start Using NoteWall"}],
       [name |-> "Paywall",
        keywords |-> {"Unlock Full Access", "Get Premium", "Restore Purchase"}],
       [name |-> "Other", keywords |-> {}] >>

CategoryOf(english_text) ==
    LET C == {i \in 1..Len(categories) : english_text \in categories[i].keywords}
    IN  IF C = {} THEN Len(categories) ELSE Min(C)

RECURSIVE CategoryBlocks(_, _)
CategoryBlocks(translations, i) ==
    IF i > Len(categories) THEN <<>>
    ELSE LET mine(key) == CategoryOf(key) = i
             texts == SelectSeq(Sorted(DOMAIN translations), mine)
         IN  (IF texts = <<>> THEN <<>>
              ELSE <<Comment(categories[i].name)>>
                   \o [j \in 1..Len(texts) |->
                         Pair(escape(texts[j]), escape(translations[texts[j]]))]
                   \o <<Blank>>)
             \o CategoryBlocks(translations, i + 1)

\* A writer that emits the category blocks twice.
write_localizable_file_twice(translations, language_code) ==
    <<Comment(language_code), Blank>> \o CategoryBlocks(translations, 1)
    \o CategoryBlocks(translations, 1)

write_localizable_file(translations, language_code) ==
    <<Comment(language_code), Blank>> \o CategoryBlocks(translations, 1)

\* A lookup that takes every language's translation from the Spanish table.
translation_from_es(lang_code, english_text, lang_existing) ==
    IF english_text \in DOMAIN lang_existing
    THEN [val |-> lang_existing[english_text], warn |-> FALSE]
    ELSE IF english_text \in DOMAIN TRANSLATIONS["es"]
    THEN [val |-> TRANSLATIONS["es"][english_text], warn |-> FALSE]
    ELSE [val |-> english_text, warn |-> TRUE]

\* A lookup whose fallback leaves the translation empty.
translation_no_fallback(lang_code, english_text, lang_existing) ==
    IF english_text \in DOMAIN lang_existing
    THEN [val |-> lang_existing[english_text], warn |-> FALSE]
    ELSE IF english_text \in DOMAIN TRANSLATIONS[lang_code]
    THEN [val |-> TRANSLATIONS[lang_code][english_text], warn |-> FALSE]
    ELSE [val |-> "", warn |-> TRUE]

\* A lookup that asks the table before the file of the language.
translation_table_first(lang_code, english_text, lang_existing) ==
    IF english_text \in DOMAIN TRANSLATIONS[lang_code]
    THEN [val |-> TRANSLATIONS[lang_code][english_text], warn |-> FALSE]
    ELSE IF english_text \in DOMAIN lang_existing
    THEN [val |-> lang_existing[english_text], warn |-> FALSE]
    ELSE [val |-> english_text, warn |-> TRUE]

\* main, lines 693-703: the translation of english_text for lang_code, and
\* whether the warning is printed.
translation_for(lang_code, english_text, lang_existing) ==
    IF english_text \in DOMAIN lang_existing
    THEN [val |-> lang_existing[english_text], warn |-> FALSE]
    ELSE IF english_text \in DOMAIN TRANSLATIONS[lang_code]
    THEN [val |-> TRANSLATIONS[lang_code][english_text], warn |-> FALSE]
    ELSE [val |-> english_text, warn |-> TRUE]

\* main, lines 673-687: the English dictionary.
english_translations(existing_en, strs) ==
    [key \in DOMAIN existing_en \cup meaningful_strings(strs) |->
        IF key \in DOMAIN existing_en THEN existing_en[key] ELSE key]

\* Dictionaries that keep, for a target language, the keys its file held.
build_translations_keeping_keys(files, strs) ==
    LET en == english_translations(read_existing_translations(files["en"]), strs)
    IN  [lang \in {"en"} \cup TargetLangs |->
            IF lang = "en" THEN en
            ELSE LET ex == read_existing_translations(files[lang])
                 IN  [key \in DOMAIN en \cup DOMAIN ex |->
                         translation_for(lang, key, ex).val]]

\* main, lines 673-703: complete_translations, from the files and the strings.
build_translations(files, strs) ==
    LET en == english_translations(read_existing_translations(files["en"]), strs)
    IN  [lang \in {"en"} \cup TargetLangs |->
            IF lang = "en" THEN en
            ELSE [key \in DOMAIN en |->
                    translation_for(lang, key, read_existing_translations(files[lang])).val]]

build_warnings(files, strs) ==
    LET en == english_translations(read_existing_translations(files["en"]), strs)
    IN  {<<lang, key>> \in TargetLangs \X DOMAIN en :
            translation_for(lang, key, read_existing_translations(files[lang])).warn}

\* fix_localization.main: localization_patterns, the entries of the model.
localization_patterns ==
    << [english |-> "%lld times",
        translations |-> [de |-> "%lld Mal", es |-> "%lld veces", fr |-> "%lld fois"]],
       [english |-> "Error: %@",
        translations |-> [de |-> "Fehler: %@", es |-> "Error: %@", fr |-> "Erreur: %@"]] >>

\* content.rstrip(): the lines without the blank lines at the end.
RECURSIVE RStrip(_)
RStrip(lines) ==
    IF lines # <<>> /\ lines[Len(lines)].k = "blank"
    THEN RStrip(SubSeq(lines, 1, Len(lines) - 1))
    ELSE lines

\* fix_localization.main, lines 227-243: new_content for a language.
pattern_line(lang_code, pat) ==
    Pair(escape(pat.english),
         escape(IF lang_code = "en" THEN pat.english ELSE pat.translations[lang_code]))

\* pattern_line in content: the text of the pair is in the text of the file.
InContent(pair, lines) ==
    \E i \in 1..Len(lines) : /\ lines[i].k \in {"pair", "quoted"}
                             /\ lines[i].key = pair.key
                             /\ lines[i].val = pair.val

\* An update that adds every pattern, without the test of line 241.
new_content_adding_all(lang_code, lines) ==
    (IF RStrip(lines) = <<>> THEN <<Blank, Blank>> ELSE RStrip(lines) \o <<Blank>>)
    \o <<Comment("Format Strings (Auto-generated)")>>
    \o [j \in 1..Len(localization_patterns) |->
          pattern_line(lang_code, localization_patterns[j])]

new_content(lang_code, lines) ==
    LET missing(pat) == ~InContent(pattern_line(lang_code, pat), lines)
        added == SelectSeq(localization_patterns, missing)
    IN  (IF RStrip(lines) = <<>> THEN <<Blank, Blank>> ELSE RStrip(lines) \o <<Blank>>)
        \o <<Comment("Format Strings (Auto-generated)")>>
        \o [j \in 1..Len(added) |-> pattern_line(lang_code, added[j])]

(***************************************************************************)
(* The localization runs.                                                  *)
(***************************************************************************)
LocScripts == {"localize_app", "fix_localization"}

\* The language files and the extracted strings the runs start from.
EnFiles == {NoFile, File(<<Pair("Cancel", "Cancel")>>)}
DeFiles == {NoFile, File(<<Pair("Cancel", "Stornieren"), Blank>>),
            File(<<Pair("Frobnicate", "Frobnizieren")>>)}
EsFiles == {NoFile, File(<<Pair("%lld times", "%lld veces")>>)}
FrFiles == {File(<<Comment("fr")>>), File(<<Quoted("Error: %@", "Erreur: %@")>>)}
StringSets == {{}, {"Cancel", "?", "42"}, {"Cancel", "cancel", "Frobnicate", "Text Style"}}

ManifestIdle ==
    /\ diskExists = FALSE
    /\ disk = <<>>
    /\ before = <<>>
    /\ content = <<>>
    /\ original_content = <<>>
    /\ file_name = ""
    /\ file_ref_id = 0
    /\ build_file_id = 0
    /\ failed_step = 0
    /\ removed_count = 0
    /\ opened = FALSE
    /\ prev = NoRun
    /\ applied = <<>>

LocInit ==
    /\ script = "none"
    /\ pc = "idle"
    /\ result = "none"
    /\ exitCode = -1
    /\ runs = 0
    /\ ManifestIdle
    /\ \E en \in EnFiles, de \in DeFiles, es \in EsFiles, fr \in FrFiles :
         locFiles = [en |-> en, de |-> de, es |-> es, fr |-> fr]
    /\ locBefore = locFiles
    /\ lang_idx = 0
    /\ all_strings \in StringSets
    /\ complete_translations = <<>>
    /\ warnings = {}
    /\ read_back = <<>>

locFrame == <<diskExists, disk, before, content, original_content, file_name,
              file_ref_id, build_file_id, failed_step, removed_count, opened, prev,
              applied, read_back>>

LocStart(sc) ==
    /\ pc = "idle"
    /\ runs < MaxRuns
    /\ script' = sc
    /\ pc' = IF sc = "localize_app" THEN "build" ELSE "update"
    /\ locBefore' = locFiles
    /\ lang_idx' = 1
    /\ result' = "none"
    /\ exitCode' = -1
    /\ complete_translations' = <<>>
    /\ warnings' = {}
    /\ UNCHANGED <<locFiles, all_strings, runs, locFrame>>

\* localize_app.main, steps 1-3: build the dictionaries; a phrase without a
\* translation gets a warning and the run goes on.
LaBuild ==
    /\ pc = "build"
    /\ complete_translations' = build_translations(locFiles, all_strings)
    /\ warnings' = build_warnings(locFiles, all_strings)
    /\ pc' = "write"
    /\ UNCHANGED <<script, locFiles, locBefore, lang_idx, all_strings, result,
                   exitCode, runs, locFrame>>

\* What a write of `lines` to the file of language lang does: the file holds
\* the lines (written |-> TRUE), or open raises and the file is as it was, or
\* the write raises and the file open has truncated holds nothing.
WriteOutcomes(files, lang, lines) ==
    { [files |-> [files EXCEPT ![lang] = File(lines)], written |-> TRUE],
      [files |-> files, written |-> FALSE],
      [files |-> [files EXCEPT ![lang] = File(<<>>)], written |-> FALSE] }

\* Where the language loop goes after a step.
LoopStep(wrote, here) ==
    /\ IF ~wrote THEN pc' = "exit" /\ result' = "raised" /\ UNCHANGED lang_idx
       ELSE IF lang_idx = Len(Langs) THEN pc' = "exit" /\ result' = "done" /\ UNCHANGED lang_idx
       ELSE pc' = here /\ lang_idx' = lang_idx + 1 /\ UNCHANGED result

\* localize_app.main, step 4: write the file of the next language; nothing
\* catches an error of the write.
LaWrite ==
    /\ pc = "write"
    /\ script = "localize_app"
    /\ \E o \in WriteOutcomes(locFiles, Langs[lang_idx],
                              write_localizable_file(complete_translations[Langs[lang_idx]],
                                                     Langs[lang_idx])) :
         /\ locFiles' = o.files
         /\ LoopStep(o.written, "write")
    /\ UNCHANGED <<script, locBefore, all_strings, complete_translations, warnings,
                   exitCode, runs, locFrame>>

\* fix_localization.main, lines 220-249: read the file of the next language
\* (nothing catches the error of a missing file), add the patterns it does
\* not hold, write it back.
FlUpdate ==
    /\ pc = "update"
    /\ script = "fix_localization"
    /\ IF ~locFiles[Langs[lang_idx]].exists
       THEN /\ pc' = "exit"
            /\ result' = "raised"
            /\ UNCHANGED <<locFiles, lang_idx>>
       ELSE \E o \in WriteOutcomes(locFiles, Langs[lang_idx],
                                   new_content(Langs[lang_idx],
                                               locFiles[Langs[lang_idx]].lines)) :
              /\ locFiles' = o.files
              /\ LoopStep(o.written, "update")
    /\ UNCHANGED <<script, locBefore, all_strings, complete_translations, warnings,
                   exitCode, runs, locFrame>>

\* The end of a localization process: exit code 0 after main returns, 1 after
\* an exception nothing caught.
LocExit ==
    /\ pc = "exit"
    /\ script \in LocScripts
    /\ exitCode' = IF result = "raised" THEN 1 ELSE 0
    /\ pc' = "idle"
    /\ runs' = runs + 1
    /\ UNCHANGED <<script, locFiles, locBefore, lang_idx, all_strings,
                   complete_translations, warnings, result, locFrame>>

LocNext ==
    \/ \E sc \in LocScripts : LocStart(sc)
    \/ LaBuild
    \/ LaWrite
    \/ FlUpdate
    \/ LocExit

LocSpec == LocInit /\ [][LocNext]_vars

(***************************************************************************)
(* write_localizable_file and read_existing_translations as functions:     *)
(* a mapping is written to the file of a language, and the file is read.   *)
(***************************************************************************)
\* The mappings written: a value may be empty or hold double quotes.
Mappings ==
    LET keys == {"Cancel", "Frobnicate", "Text Style", "cancel"}
        values == {"Abbrechen", "Textstil", "", QuotePhrase}
    IN  UNION {[S -> values] : S \in SUBSET keys}

RoundInit ==
    /\ script = "none"
    /\ pc = "idle"
    /\ result = "none"
    /\ exitCode = -1
    /\ runs = 0
    /\ ManifestIdle
    /\ locFiles = [lang \in Range(Langs) |-> NoFile]
    /\ locBefore = locFiles
    /\ lang_idx = 0
    /\ all_strings = {}
    /\ \E m \in Mappings : complete_translations = [lang \in Range(Langs) |-> m]
    /\ warnings = {}
    /\ read_back = <<>>

\* write_localizable_file(output_path, translations, language_code)
RtWrite(lang) ==
    /\ ~locFiles[lang].exists
    /\ locFiles' = [locFiles EXCEPT
                      ![lang] = File(write_localizable_file(complete_translations[lang], lang))]
    /\ UNCHANGED <<manifestVars, locBefore, lang_idx, all_strings, complete_translations,
                   warnings, read_back, applied>>

\* read_existing_translations(localizable_path)
RtRead(lang) ==
    /\ locFiles[lang].exists
    /\ lang \notin DOMAIN read_back
    /\ read_back' = (lang :> read_existing_translations(locFiles[lang])) @@ read_back
    /\ UNCHANGED <<manifestVars, locFiles, locBefore, lang_idx, all_strings,
                   complete_translations, warnings, applied>>

RoundNext == \E lang \in Range(Langs) : RtWrite(lang) \/ RtRead(lang)

RoundSpec == RoundInit /\ [][RoundNext]_vars

(***************************************************************************)
(* The claims.                                                             *)
(***************************************************************************)
Count(f, x) == Cardinality({i \in DOMAIN f : f[i] = x})
AddDone == pc = "exit" /\ script \in AddScripts
AddSucceeded == AddDone /\ result = "True"
\* The run ended by a failure of open or write, not by a pattern.
IoFailed == pc = "exit" /\ failed_step = 0 /\ result # "True"

\* The four lines an add run is to add, one per entry.
EntryLines(sc, fid, bid, name) ==
    << <<TAB, TAB, FREntry(fid, name, TypeOf(sc))>>,
       <<TAB, TAB, BFEntry(bid, fid, name, PhaseOf(sc))>>,
       <<TAB, TAB, TAB, TAB, ChildEntry(fid, name)>>,
       <<TAB, TAB, TAB, TAB, PhaseEntry(bid, name, PhaseOf(sc))>> >>

\* C1: after a successful add run the lines of the file are the lines it
\* had before, each unchanged, plus exactly four new lines, one per inserted
\* entry (file reference, build file, group child, build-phase entry).
C1_LinesKeptPlusFour ==
    AddSucceeded =>
        LET inL == SplitLines(before)
            outL == SplitLines(disk)
            new == EntryLines(script, file_ref_id, build_file_id, file_name)
        IN  /\ Len(outL) = Len(inL) + 4
            /\ \A l \in Range(outL) \cup Range(inL) \cup Range(new) :
                 Count(outL, l) = Count(inL, l) + Count(new, l)

\* C2: when one of the four patterns does not match, the add run returns
\* False, has not opened the manifest for writing, and the file holds what
\* it held before the run, whichever step failed.
C2_FailedPatternLeavesFile ==
    (AddDone /\ failed_step # 0) =>
        /\ result = "False"
        /\ ~opened
        /\ disk = before

\* C2 witness: the fourth pattern failed after three splices in memory.
C2_Witness ==
    /\ AddDone
    /\ failed_step = 4
    /\ content # original_content
    /\ disk = before

\* C3: a fix run on the file a fix run has just written removes no entry and
\* leaves the file as it is.
C3_FixIdempotent ==
    (/\ pc = "exit"
     /\ script = "fix_xcode_resources"
     /\ prev.script = "fix_xcode_resources"
     /\ prev.result = "True") =>
        /\ removed_count = 0
        /\ content = original_content
        /\ ~opened
        /\ disk = before

\* C3 witness: the second fix run has ended, the first having removed lines.
C3_Witness ==
    /\ pc = "exit"
    /\ script = "fix_xcode_resources"
    /\ prev.script = "fix_xcode_resources"
    /\ prev.result = "True"
    /\ prev.removed > 1
    /\ result = "False"

\* Only white space lies between the section's markers.
SectionEmpty(c, beginKind, endKind) ==
    LET b == FirstKind(c, 1, beginKind)
        e == IF b = 0 THEN 0 ELSE FirstKind(c, b + 1, endKind)
    IN  e # 0 /\ \A j \in (b + 1)..(e - 1) : IsWs(c[j])

HasKind(c, kind) == FirstKind(c, 1, kind) # 0

\* The tokens of the files list of the first sources build phase.
SourcesFiles(c) ==
    LET i == FirstKind(c, 1, "IsaSrc")
        f == IF i = 0 THEN 0 ELSE FirstKind(c, i + 1, "FilesOpen")
        p == IF f = 0 THEN 0 ELSE FirstKind(c, f + 1, "CloseParen")
    IN  IF p = 0 THEN <<>> ELSE SubSeq(c, f + 1, p - 1)

\* C4: on a manifest whose file-reference and build-file sections are empty
\* (and that has the NoteWall group and the sources build phase) add_file
\* succeeds, and the file then has exactly one file-reference entry naming
\* the file, of type sourcecode.swift, exactly one build-file entry whose
\* fileRef is that entry's identifier, and the build-file identifier in the
\* files list of the sources build phase.
C4_EmptySectionsAddFile ==
    (/\ AddDone
     /\ script = "add_file"
     /\ ~IoFailed
     /\ SectionEmpty(before, "BeginFR", "EndFR")
     /\ SectionEmpty(before, "BeginBF", "EndBF")
     /\ HasKind(before, "GrpHdr")
     /\ HasKind(before, "IsaSrc")) =>
        /\ result = "True"
        /\ LET FR == {i \in 1..Len(disk) : disk[i].k = "FREntry" /\ disk[i].nm = file_name}
               BF == {i \in 1..Len(disk) : /\ disk[i].k = "BFEntry"
                                           /\ \E j \in FR : disk[i].ref = disk[j].id}
           IN  /\ Cardinality(FR) = 1
               /\ \A j \in FR : disk[j].x = "sourcecode.swift"
               /\ Cardinality(BF) = 1
               /\ \A i \in BF : \E t \in Range(SourcesFiles(disk)) :
                      t.k = "PhaseEntry" /\ t.id = disk[i].id

\* C7: after an add run, whichever step failed, the file either holds what
\* it held before the run or holds the blob with all four insertions.
C7_AllOrNothing ==
    AddDone =>
        \/ disk = before
        \/ /\ failed_step = 0
           /\ content # original_content
           /\ disk = content

\* C9: a manifest script ends with exit code 0 exactly when it has written
\* the patched manifest, and with exit code 1 otherwise: after a pattern
\* that did not match, a write error, or a fix run that changed nothing.
C9_ExitCodes ==
    prev.script \in ManifestScripts =>
        /\ prev.exit = 0 <=> prev.written
        /\ ~prev.written => prev.exit = 1
        /\ (prev.script = "fix_xcode_resources" /\ prev.unchanged) => prev.exit = 1
        /\ pc = "idle" => exitCode = prev.exit

\* C9 witness: a fix run whose write failed has ended.
C9_Witness ==
    /\ pc = "idle"
    /\ prev.script = "fix_xcode_resources"
    /\ prev.opened
    /\ ~prev.written
    /\ prev.exit = 1

\* The run has read the file.
HasRead == pc \notin {"idle", "read"} /\ diskExists

\* C10: the manifest is opened for writing only when the blob differs from
\* what was read, and a blob that differs is written back; a fix run whose
\* blob is unchanged does not open the file and returns False ("no
\* changes"), it does not report success.
C10_WriteIffChanged ==
    /\ opened => content # original_content
    /\ pc \in {"open", "write"} => content # original_content
    /\ (pc = "exit" /\ script = "fix_xcode_resources" /\ HasRead) =>
          IF content = original_content
          THEN result = "False" /\ ~opened /\ disk = before
          ELSE result \in {"True", "raised"}
    /\ (AddDone /\ HasRead /\ failed_step = 0) => content # original_content

\* C10 witness: a fix run has found nothing to change.
C10_Witness ==
    /\ pc = "exit"
    /\ script = "fix_xcode_resources"
    /\ HasRead
    /\ content = original_content
    /\ content # <<>>
    /\ result = "False"
    /\ ~opened

(***************************************************************************)
(* Further claims about the manifest scripts.                              *)
(***************************************************************************)

\* C11: when the manifest file does not exist, a manifest script reports the
\* error (the add scripts print it and return False, the interpreter prints
\* the exception fix_xcode_project raises), does no patch step, never opens
\* the file for writing, ends with exit code 1, and no step of a script
\* creates the file.
C11_MissingManifest ==
    /\ [](~diskExists =>
            /\ pc \in {"idle", "read", "exit"}
            /\ content = <<>>
            /\ failed_step = 0
            /\ removed_count = 0
            /\ ~opened
            /\ (pc = "exit" /\ script \in ManifestScripts) =>
                  /\ result = OnException(script)
                  /\ ExitCodeOf(result) = 1
            /\ (pc = "idle" /\ prev.script \in ManifestScripts) =>
                  /\ prev.exit = 1
                  /\ exitCode = 1
                  /\ ~prev.opened)
    /\ [][~diskExists => ~diskExists']_vars

\* C11 witness: a fix run and then an add run have ended on a missing file.
C11_Witness ==
    /\ ~diskExists
    /\ pc = "exit"
    /\ script \in AddScripts
    /\ result = "False"
    /\ prev.script = "fix_xcode_resources"
    /\ prev.exit = 1

\* The section's opening marker is in c, and its closing marker after it.
MarkersInOrder(c, beginKind, endKind) ==
    LET b == FirstKind(c, 1, beginKind)
    IN  b # 0 /\ FirstKind(c, b + 1, endKind) # 0

\* C13: the PBXFileReference section is located whenever its two markers are
\* present in that order, and only then; the span located lies between the
\* two markers; a locate that fails ends the run, no later step is executed
\* and the blob is as it was read.
C13_LocateBetweenMarkers ==
    (AddDone /\ HasRead) =>
        /\ MarkersInOrder(original_content, "BeginFR", "EndFR") <=> failed_step # 1
        /\ failed_step = 1 => content = original_content /\ result = "False"
        /\ failed_step # 1 =>
              LET m == StepMatch(script, 1, original_content)
              IN  /\ FirstKind(original_content, 1, "BeginFR") < m
                  /\ m <= FirstKind(original_content, 1, "EndFR")

\* The token at index i is the only text of its line.
OwnLine(c, i) ==
    LET prevNL == {j \in 1..(i - 1) : c[j].k = "NL"}
        nextNL == {j \in (i + 1)..Len(c) : c[j].k = "NL"}
        from == IF prevNL = {} THEN 1 ELSE (CHOOSE j \in prevNL : \A q \in prevNL : q <= j) + 1
        to == IF nextNL = {} THEN Len(c) ELSE Min(nextNL) - 1
    IN  \A j \in from..to : j # i => IsWs(c[j])

\* The entry at index i of c is directly in front of the closing marker at
\* index e: only the end of the entry's line and the indentation of the
\* marker lie between them.
LineBefore(c, i, e) ==
    /\ i < e
    /\ \A j \in (i + 1)..(e - 1) : IsWs(c[j])
    /\ Cardinality({j \in (i + 1)..(e - 1) : c[j].k = "NL"}) = 1

\* C14: after step 1 of an add run the new file-reference entry is in the
\* PBXFileReference section, on a line of its own, after every entry the
\* section had, and directly in front of the section's closing marker.
C14_FileRefEntryPlaced ==
    (pc = "step2" /\ script \in AddScripts) =>
        LET p == StepMatch(script, 1, original_content) + 2
            b == FirstKind(content, 1, "BeginFR")
            e == FirstKind(content, b + 1, "EndFR")
        IN  /\ content[p] = FREntry(file_ref_id, file_name, TypeOf(script))
            /\ b < p /\ p < e
            /\ \A j \in b..e : (content[j].k = "FREntry" /\ j # p) => j < p
            /\ OwnLine(content, p)
            /\ LineBefore(content, p, e)

\* The text tokens of s, its white space left out.
NonWs(s) == LET text(t) == ~IsWs(t) IN SelectSeq(s, text)

IsaOf(sc) == IF sc = "add_file" THEN "IsaSrc" ELSE "IsaRes"
OtherIsaOf(sc) == IF sc = "add_file" THEN "IsaRes" ELSE "IsaSrc"

\* The files list of the first build phase of kind isaKind: the tokens
\* between its "files = (" and the ");" that closes it.
PhaseFiles(c, isaKind) ==
    LET i == FirstKind(c, 1, isaKind)
        f == IF i = 0 THEN 0 ELSE FirstKind(c, i + 1, "FilesOpen")
        p == IF f = 0 THEN 0 ELSE FirstKind(c, f + 1, "CloseParen")
    IN  IF p = 0 THEN <<>> ELSE SubSeq(c, f + 1, p - 1)

\* uuid4 gave a build identifier no build phase of the manifest holds.
FreshBuildId ==
    \A j \in 1..Len(before) : before[j].k = "PhaseEntry" => before[j].id # build_file_id

GroupHeaders(c) == {i \in 1..Len(c) : c[i].k = "GrpHdr"}

\* The children list of the group whose header is at index h: the tokens
\* between its "children = (" and the ");" that closes it.
GroupChildren(c, h) ==
    LET o == FirstKind(c, h + 1, "ChildrenOpen")
        p == IF o = 0 THEN 0 ELSE FirstKind(c, o + 1, "CloseParen")
    IN  IF p = 0 THEN <<>> ELSE SubSeq(c, o + 1, p - 1)

\* Header j of d is the group that header i of c is: as many groups precede it.
SameGroup(c, i, d, j) ==
    Cardinality({q \in GroupHeaders(c) : q < i}) = Cardinality({q \in GroupHeaders(d) : q < j})

\* C16: after a successful add run the children list of the NoteWall group
\* is the list it was with the new file reference, tagged with the file
\* name, as its last element, and the children list of every other group is
\* as it was.
C16_ChildAppendedToNoteWall ==
    AddSucceeded =>
        /\ Cardinality(GroupHeaders(disk)) = Cardinality(GroupHeaders(before))
        /\ \A i \in GroupHeaders(before) : \A j \in GroupHeaders(disk) :
             SameGroup(before, i, disk, j) =>
               /\ disk[j] = before[i]
               /\ IF before[i].nm = "NoteWall"
                  THEN NonWs(GroupChildren(disk, j)) =
                          Append(NonWs(GroupChildren(before, i)),
                                 ChildEntry(file_ref_id, file_name))
                  ELSE GroupChildren(disk, j) = GroupChildren(before, i)

\* C16 witness: add_resource has added its child to a NoteWall group that
\* had one, between the main group and the Products group.
C16_Witness ==
    /\ AddSucceeded
    /\ script = "add_resource"
    /\ Cardinality(GroupHeaders(disk)) = 3
    /\ \E j \in GroupHeaders(disk) :
         /\ disk[j].nm = "NoteWall"
         /\ Len(NonWs(GroupChildren(disk, j))) = 2

\* The identifiers at the head of the entries of a line: none for a line of
\* white space.
OwnIds(line) == {line[j].id : j \in {q \in 1..Len(line) : ~IsWs(line[q])}}

\* C17: fix_xcode_project removes a line of the files list of the Resources
\* build phase exactly when the identifier of the line is in the removal set
\* computed from the blob read; the other lines are kept, in order; the
\* count is the number of lines removed; nothing else of the blob changes.
C17_RemovesExactlyTheSet ==
    (pc = "compare" /\ script = "fix_xcode_resources") =>
        LET ids == ids_to_remove(original_content)
            m == ResourcesSectionMatch(original_content, 1)
            n == ResourcesSectionMatch(content, 1)
            oldL == SplitLines(PhaseFiles(original_content, "IsaRes"))
            newL == SplitLines(PhaseFiles(content, "IsaRes"))
            kept(line) == OwnIds(line) \cap ids = {}
        IN  IF m.f = 0
            THEN content = original_content /\ removed_count = 0
            ELSE /\ newL = SelectSeq(oldL, kept)
                 /\ removed_count = Len(oldL) - Len(newL)
                 /\ SubSeq(content, 1, n.f) = SubSeq(original_content, 1, m.f)
                 /\ SubSeq(content, n.p, Len(content))
                      = SubSeq(original_content, m.p, Len(original_content))

\* C17 witness: two of the three lines of the list were removed, the line of
\* Main.storyboard was kept.
C17_Witness ==
    /\ pc = "compare"
    /\ script = "fix_xcode_resources"
    /\ removed_count = 2
    /\ NonWs(PhaseFiles(content, "IsaRes")) = <<PhaseEntry(13, "Main.storyboard", "Resources")>>

\* C18: the four steps of an add run commute.  Whether the pattern of a step
\* matches does not depend on the steps applied before it, and the blob
\* after the four steps, applied in any order, is the blob the order of the
\* scripts gives.
C18_StepsCommute ==
    /\ \A n \in 1..4 :
         (pc = "splice" /\ \A i \in 1..Len(applied) : applied[i] # n) =>
            (StepMatch(script, n, content) = 0
               <=> StepMatch(script, n, original_content) = 0)
    /\ (pc = "exit" /\ failed_step = 0) =>
          content = SpliceFrom(script, 1, original_content, file_ref_id, build_file_id,
                               file_name)

\* C18 witness: the four steps were applied in reverse order to a manifest
\* with entries.
C18_Witness ==
    /\ pc = "exit"
    /\ failed_step = 0
    /\ applied = <<4, 3, 2, 1>>
    /\ HasKind(original_content, "FREntry")
    /\ Len(content) > Len(original_content)

\* The tokens the four entries of an add run add to the blob.
InsertedLen(sc) ==
    Len(file_ref_entry(sc, 0, "")) + Len(build_file_entry(sc, 0, 0, ""))
    + Len(children_entry(0, "")) + Len(phase_entry(sc, 0, ""))

\* The order of the positions of an add run: a step is followed by the next
\* step or by the end of the run, the open by the write or the end, and the
\* end of the run leaves the file as it is and takes the blob with it.
AddRunOrder ==
    script \in AddScripts =>
        /\ \A n \in 1..4 :
             pc = StepPc[n] => pc' \in {IF n = 4 THEN "open" ELSE StepPc[n + 1], "exit"}
        /\ pc = "open" => pc' \in {"write", "exit"}
        /\ pc = "write" => pc' = "exit"
        /\ pc = "exit" => (pc' = "idle" /\ disk' = disk /\ content' = <<>>)

\* C19: every add run terminates; the manifest is opened for writing at most
\* once in a run, and only when the four steps have succeeded and the blob
\* holds the four entries; a step is followed by the next step or by the end
\* of the run, never by itself or an earlier step; when a step has failed
\* the file stays as it is and the blob with the earlier insertions is gone
\* with the run.
C19_AddRunTerminates ==
    /\ [](script \in AddScripts =>
            /\ pc = "open" =>
                  /\ ~opened
                  /\ failed_step = 0
                  /\ content = SpliceFrom(script, 1, original_content, file_ref_id,
                                          build_file_id, file_name)
                  /\ Len(content) = Len(original_content) + InsertedLen(script)
            /\ opened => (pc \in {"write", "exit"} /\ failed_step = 0)
            /\ failed_step # 0 => (pc = "exit" /\ ~opened /\ disk = before))
    /\ [][AddRunOrder]_vars
    /\ (script \in AddScripts /\ pc = "read") ~> (pc = "idle")

\* C19 witness: an add run that wrote the manifest has ended.
C19_Witness ==
    /\ pc = "idle"
    /\ prev.script \in AddScripts
    /\ prev.opened
    /\ prev.written
    /\ exitCode = 0

\* The sections of the manifest: the kinds of the opening marker, of the
\* closing marker and of the entries of each.
SectionKinds ==
    { [b |-> "BeginBF", e |-> "EndBF", entry |-> "BFEntry", x |-> ""],
      [b |-> "BeginFR", e |-> "EndFR", entry |-> "FREntry", x |-> ""],
      [b |-> "BeginGrp", e |-> "EndGrp", entry |-> "ChildEntry", x |-> ""],
      [b |-> "BeginRes", e |-> "EndRes", entry |-> "PhaseEntry", x |-> "Resources"],
      [b |-> "BeginSrc", e |-> "EndSrc", entry |-> "PhaseEntry", x |-> "Sources"] }

CountKind(c, kind) == Cardinality({j \in 1..Len(c) : c[j].k = kind})

\* The entries of section sec in c: for a build phase, those of the phase.
EntriesOf(c, sec) ==
    {j \in 1..Len(c) : /\ c[j].k = sec.entry
                       /\ sec.entry = "PhaseEntry" => c[j].x = sec.x}

\* Section sec of c has its opening marker, then its entries, then its
\* closing marker.
WellFormed(c, sec) ==
    LET b == FirstKind(c, 1, sec.b)
        e == IF b = 0 THEN 0 ELSE FirstKind(c, b + 1, sec.e)
    IN  /\ e # 0
        /\ \A j \in EntriesOf(c, sec) : b < j /\ j < e

\* C20: the blob a manifest script has written back has every marker as
\* often as the manifest had it before the run, and every section that had
\* its opening marker, its entries and its closing marker in this order
\* still has them so, the inserted entries between the two markers.
C20_SectionShapeKept ==
    (pc = "exit" /\ script \in ManifestScripts /\ result = "True") =>
        \A sec \in SectionKinds :
            /\ CountKind(disk, sec.b) = CountKind(before, sec.b)
            /\ CountKind(disk, sec.e) = CountKind(before, sec.e)
            /\ WellFormed(before, sec) => WellFormed(disk, sec)
            /\ script \in AddScripts =>
                  Cardinality(EntriesOf(disk, sec)) = Cardinality(EntriesOf(before, sec))
                      + (IF sec.x = PhaseOf(script) \/ sec.entry # "PhaseEntry" THEN 1 ELSE 0)

\* C20 witness: an add_resource run has written the manifest a fix run had
\* written before it.
C20_Witness ==
    /\ pc = "exit"
    /\ script = "add_resource"
    /\ result = "True"
    /\ prev.script = "fix_xcode_resources"
    /\ prev.written
    /\ \A sec \in SectionKinds : WellFormed(disk, sec)

\* The entries that declare an identifier: file references, build files and
\* groups.  (A child of a group and an entry of a files list refer to one.)
Declarations(c) == {j \in 1..Len(c) : c[j].k \in {"FREntry", "BFEntry", "GrpHdr"}}

\* Every identifier of c is declared once.
UniqueIds(c) ==
    \A i \in Declarations(c) : \A j \in Declarations(c) : c[i].id = c[j].id => i = j

\* The identifiers that occur in c.
IdsIn(c) == {c[j].id : j \in 1..Len(c)} \cup {c[j].ref : j \in 1..Len(c)}

\* uuid4 gave two identifiers that differ and do not occur in the manifest.
FreshIds ==
    /\ file_ref_id # build_file_id
    /\ file_ref_id \notin IdsIn(before)
    /\ build_file_id \notin IdsIn(before)

\* C21, as the claim states it: after an add run every identifier of the
\* manifest is declared once, the two identifiers of the run differing from
\* each other and from every identifier the manifest had.
C21_IdsAlwaysUnique ==
    (AddSucceeded /\ UniqueIds(before)) =>
        /\ file_ref_id # build_file_id
        /\ file_ref_id \notin IdsIn(before)
        /\ build_file_id \notin IdsIn(before)
        /\ UniqueIds(disk)

\* C21, amended: the run does not compare the identifiers uuid4 gives with
\* each other or with the manifest.  When they differ from each other and
\* from every identifier of the manifest, every identifier is declared once
\* after the run, the new file reference under file_ref_id and the new build
\* file under build_file_id; when they are equal, or one of them is declared
\* in the manifest, the run succeeds all the same and the manifest it writes
\* declares an identifier twice.
C21_UniqueWhenFresh ==
    /\ (AddSucceeded /\ UniqueIds(before) /\ FreshIds) =>
          /\ UniqueIds(disk)
          /\ Cardinality({j \in Declarations(disk) : disk[j].id = file_ref_id}) = 1
          /\ Cardinality({j \in Declarations(disk) : disk[j].id = build_file_id}) = 1
          /\ \A j \in Declarations(disk) :
               /\ disk[j].id = file_ref_id => disk[j].k = "FREntry"
               /\ disk[j].id = build_file_id =>
                     (disk[j].k = "BFEntry" /\ disk[j].ref = file_ref_id)
    /\ (/\ AddSucceeded
        /\ \/ file_ref_id = build_file_id
           \/ \E j \in Declarations(before) :
                 before[j].id \in {file_ref_id, build_file_id}) =>
          ~UniqueIds(disk)

\* C21 witness: an add run with two fresh identifiers has written a manifest
\* that declares the identifiers of its groups.
C21_Witness ==
    /\ AddSucceeded
    /\ UniqueIds(before)
    /\ FreshIds
    /\ Cardinality(Declarations(disk)) = Cardinality(Declarations(before)) + 2

\* The blobs that become c when entry is inserted at one place.
Without(c, entry) ==
    {SubSeq(c, 1, p) \o SubSeq(c, p + Len(entry) + 1, Len(c)) :
        p \in {q \in 0..(Len(c) - Len(entry)) : SubSeq(c, q + 1, q + Len(entry)) = entry}}

\* C23: a successful add run only inserts: the blob written is the blob read
\* with the file-reference entry, the build-file entry, the children entry
\* and the build-phase entry inserted, so that taking the four out of the
\* output gives the input, nothing of which is removed or altered.
C23_OnlyInserts ==
    AddSucceeded =>
        LET c3 == Without(disk, phase_entry(script, build_file_id, file_name))
            c2 == UNION {Without(c, children_entry(file_ref_id, file_name)) : c \in c3}
            c1 == UNION {Without(c, build_file_entry(script, build_file_id, file_ref_id,
                                                     file_name)) : c \in c2}
            c0 == UNION {Without(c, file_ref_entry(script, file_ref_id, file_name)) : c \in c1}
        IN  /\ before \in c0
            /\ Len(disk) = Len(before)
                            + Len(file_ref_entry(script, file_ref_id, file_name))
                            + Len(build_file_entry(script, build_file_id, file_ref_id,
                                                   file_name))
                            + Len(children_entry(file_ref_id, file_name))
                            + Len(phase_entry(script, build_file_id, file_name))

\* C23 witness: a successful add run on a manifest whose sections, group and
\* build phase held entries.
C23_Witness ==
    /\ AddSucceeded
    /\ disk # before
    /\ \A kind \in {"FREntry", "BFEntry", "ChildEntry", "PhaseEntry"} : HasKind(before, kind)

\* The files lists of c, in the order of the blob: for each "files = (" the
\* tokens up to the ");" that closes it.
FilesLists(c) ==
    LET F == {j \in 1..Len(c) : c[j].k = "FilesOpen"}
        at(n) == CHOOSE j \in F : Cardinality({q \in F : q < j}) = n - 1
    IN  [n \in 1..Cardinality(F) |->
            SubSeq(c, at(n) + 1, FirstKind(c, at(n) + 1, "CloseParen") - 1)]

\* C24: a fix run that wrote the manifest changed nothing outside the first
\* files list of the resources section: the text up to its "files = (" and
\* the text from its ");" on are as they were, and so are the PBXBuildFile
\* entries, those of the removed identifiers among them, and the files list
\* of every other build phase.
C24_OnlyFirstResourcesListChanges ==
    (pc = "exit" /\ script = "fix_xcode_resources" /\ result = "True") =>
        LET m == ResourcesSectionMatch(before, 1)
            n == ResourcesSectionMatch(disk, 1)
            first == Cardinality({j \in 1..m.f : before[j].k = "FilesOpen"})
            isBF(t) == t.k = "BFEntry"
        IN  IF m.f = 0 THEN disk = before
            ELSE /\ SubSeq(disk, 1, n.f) = SubSeq(before, 1, m.f)
                 /\ SubSeq(disk, n.p, Len(disk)) = SubSeq(before, m.p, Len(before))
                 /\ SelectSeq(disk, isBF) = SelectSeq(before, isBF)
                 /\ \A id \in ids_to_remove(before) :
                      \A j \in 1..Len(before) :
                         (before[j].k = "BFEntry" /\ before[j].id = id) =>
                            Count(disk, before[j]) = 1
                 /\ Len(FilesLists(disk)) = Len(FilesLists(before))
                 /\ \A k \in 1..Len(FilesLists(before)) :
                      k # first => FilesLists(disk)[k] = FilesLists(before)[k]

\* C24 witness: a fix run has removed lines from the first resources list of
\* a manifest with a second resources phase, whose list holds an identifier
\* of the removal set, and with the PBXBuildFile entry of a removed
\* identifier.
C24_Witness ==
    /\ pc = "exit"
    /\ script = "fix_xcode_resources"
    /\ result = "True"
    /\ disk # before
    /\ Len(FilesLists(disk)) = 4
    /\ \E j \in 1..Len(disk) : /\ disk[j] = PhaseEntry(15, "logo-icon.png", "Resources")
                               /\ disk[j].id \in ids_to_remove(before)
    /\ \E j \in 1..Len(disk) : /\ disk[j].k = "BFEntry"
                               /\ disk[j].id \in ids_to_remove(before)
                               /\ \A q \in 1..Len(disk) :
                                    disk[q].k = "PhaseEntry" /\ disk[q].x = "Resources"
                                       => disk[q].id # disk[j].id

\* The entries of kind `kind` that c holds for the file name.
NamedEntries(c, kind, name) == {j \in 1..Len(c) : c[j].k = kind /\ c[j].nm = name}

\* C25: every successful add run adds one file-reference entry, one
\* build-file entry, one group child and one build-phase entry for its file
\* name, also when the manifest holds entries for the name: a successful run
\* that follows a successful run of the same script finds the entries of
\* that run and adds its own to them.
C25_EachRunAddsOneOfEach ==
    AddSucceeded =>
        \A kind \in {"FREntry", "BFEntry", "ChildEntry", "PhaseEntry"} :
            LET had == Cardinality(NamedEntries(before, kind, file_name))
                has == Cardinality(NamedEntries(disk, kind, file_name))
            IN  /\ has = had + 1
                /\ (prev.script = script /\ prev.result = "True") => had >= 1

\* C25 witness: the second of two successful runs of add_file has left two
\* entries of each kind for its file name.
C25_Witness ==
    /\ AddSucceeded
    /\ script = "add_file"
    /\ prev.script = "add_file"
    /\ prev.result = "True"
    /\ \A kind \in {"FREntry", "BFEntry", "ChildEntry", "PhaseEntry"} :
          Cardinality(NamedEntries(disk, kind, file_name)) = 2

\* C26: when the manifest has several build phases of the kind a script
\* works on (sources for add_file, resources for add_resource and
\* fix_xcode_resources), a run that wrote the manifest changed the files list
\* of the first of them only: an add run appended its entry to it, a fix run
\* took lines out of it, and the files list of every later phase of the kind
\* is as it was.
C26_FirstPhaseOnly ==
    (pc = "exit" /\ script \in ManifestScripts /\ result = "True") =>
        LET isa == IF script = "add_file" THEN "IsaSrc" ELSE "IsaRes"
            I(c) == {i \in 1..Len(c) : c[i].k = isa}
            nth(c, n) == CHOOSE i \in I(c) : Cardinality({q \in I(c) : q < i}) = n - 1
            list(c, n) == PhaseFiles(SubSeq(c, nth(c, n), Len(c)), isa)
        IN  Cardinality(I(before)) >= 2 =>
              /\ Cardinality(I(disk)) = Cardinality(I(before))
              /\ \A n \in 2..Cardinality(I(before)) : list(disk, n) = list(before, n)
              /\ script \in AddScripts =>
                    NonWs(list(disk, 1))
                       = Append(NonWs(list(before, 1)),
                                PhaseEntry(build_file_id, file_name, PhaseOf(script)))
              /\ script = "fix_xcode_resources" =>
                    /\ Len(list(disk, 1)) <= Len(list(before, 1))
                    /\ disk # before => Len(list(disk, 1)) < Len(list(before, 1))

\* C26 witness: on a manifest with two resources phases add_resource has
\* added its entry to the list of the first, and the fix run after it has
\* taken lines out of that list; the list of the second phase holds the one
\* entry it held.
C26_Witness ==
    /\ pc = "exit"
    /\ script = "fix_xcode_resources"
    /\ result = "True"
    /\ disk # before
    /\ prev.script = "add_resource"
    /\ prev.result = "True"
    /\ CountKind(disk, "IsaRes") = 2
    /\ LET first == NonWs(PhaseFiles(disk, "IsaRes"))
       IN  /\ Len(first) = 2
           /\ first[1] = PhaseEntry(13, "Main.storyboard", "Resources")
           /\ first[2].nm = "PrivacyInfo.xcprivacy"
    /\ NonWs(FilesLists(disk)[2]) = <<PhaseEntry(15, "logo-icon.png", "Resources")>>

(***************************************************************************)
(* The claims about the localization scripts.                              *)
(***************************************************************************)
LangIndex(lang) == CHOOSE i \in 1..Len(Langs) : Langs[i] = lang

\* localize_app has built its dictionaries in the current or the last run.
LaBuilt == script = "localize_app" /\ pc \in {"write", "exit", "idle"}

\* localize_app has written the file of language lang in that run.
LaWritten(lang) == LaBuilt /\ (lang_idx > LangIndex(lang) \/ result = "done")

HasLine(lang, line) ==
    \E i \in 1..Len(locFiles[lang].lines) : locFiles[lang].lines[i] = line

ExistingBefore(lang) == DOMAIN read_existing_translations(locBefore[lang])

\* C5, as the claim states it: for every target language L and every phrase P
\* that is a key of TRANSLATIONS[L], the translation localize_app writes for P
\* in L is TRANSLATIONS[L][P].
C5_TableAlwaysWins ==
    LaBuilt =>
      \A lang \in TargetLangs :
        \A P \in DOMAIN TRANSLATIONS[lang] \cap DOMAIN complete_translations["en"] :
          /\ complete_translations[lang][P] = TRANSLATIONS[lang][P]
          /\ LaWritten(lang) => HasLine(lang, Pair(P, TRANSLATIONS[lang][P]))

\* C5, amended: for every target language L and every phrase P that is a key
\* of TRANSLATIONS[L] and not already a key of L's Localizable.strings, the
\* translation localize_app writes for P in L is TRANSLATIONS[L][P]; the keys
\* are compared exactly, so a phrase that differs from a key in case only is
\* not translated by the table.
C5_TableTranslation ==
    LaBuilt =>
      \A lang \in TargetLangs :
        \A P \in DOMAIN complete_translations["en"] \ ExistingBefore(lang) :
          /\ P \in DOMAIN TRANSLATIONS[lang] =>
               /\ complete_translations[lang][P] = TRANSLATIONS[lang][P]
               /\ LaWritten(lang) => HasLine(lang, Pair(P, TRANSLATIONS[lang][P]))
          /\ P = "cancel" =>
               /\ complete_translations[lang][P] # TRANSLATIONS[lang]["Cancel"]
               /\ LaWritten(lang) => ~HasLine(lang, Pair(P, TRANSLATIONS[lang]["Cancel"]))

\* German has been written with the table's translation of "Cancel", next to
\* the untranslated "cancel".
C5_Witness ==
    /\ LaWritten("de")
    /\ "Cancel" \notin ExistingBefore("de")
    /\ HasLine("de", Pair("Cancel", "Abbrechen"))
    /\ HasLine("de", Pair("cancel", "cancel"))

\* C6, as the claim states it: a phrase without an entry in the translation
\* table of a target language is written with the source phrase as its
\* translation, and a warning is emitted.
C6_NoTableEntryFallsBack ==
    LaBuilt =>
      \A lang \in TargetLangs :
        \A P \in DOMAIN complete_translations["en"] \ DOMAIN TRANSLATIONS[lang] :
          /\ complete_translations[lang][P] = P
          /\ <<lang, P>> \in warnings

\* C6, amended: a phrase with no entry in the translation table of a target
\* language and no entry in that language's Localizable.strings gets the
\* source phrase as its translation and a warning; the run goes on to write
\* the files, and the phrase is in the file of the language once written.
C6_FallbackToSource ==
    LaBuilt =>
      \A lang \in TargetLangs :
        \A P \in (DOMAIN complete_translations["en"] \ DOMAIN TRANSLATIONS[lang])
                   \ ExistingBefore(lang) :
          /\ complete_translations[lang][P] = P
          /\ <<lang, P>> \in warnings
          /\ LaWritten(lang) => HasLine(lang, Pair(P, P))
          /\ (pc = "write" /\ lang_idx = 1) => result = "none"

\* A run with a warning for "Frobnicate" in Spanish has written all four files.
C6_Witness ==
    /\ LaBuilt
    /\ result = "done"
    /\ <<"es", "Frobnicate">> \in warnings
    /\ HasLine("es", Pair("Frobnicate", "Frobnicate"))

\* C8: a run of a localization script updates all four language files or
\* persists no change to any of them: when the read or the write of the file
\* of a later language fails, the files of the earlier languages are as they
\* were before the run.
C8_AllFilesOrNone ==
    (script \in LocScripts /\ pc = "exit" /\ result = "raised") =>
        \A i \in 1..(lang_idx - 1) : locFiles[Langs[i]] = locBefore[Langs[i]]

\* C12: when the Localizable.strings file of one of the four languages does
\* not exist, the localization script reports the error, aborts the run and
\* writes no localization file.
C12_MissingLanguageFileAborts ==
    (/\ script \in LocScripts
     /\ pc = "exit"
     /\ \E i \in 1..Len(Langs) : ~locBefore[Langs[i]].exists
     \* no write of the run failed: it ended normally or by the read of a
     \* missing file
     /\ \/ result = "done"
        \/ script = "fix_localization" /\ ~locFiles[Langs[lang_idx]].exists) =>
        /\ result = "raised"
        /\ locFiles = locBefore

\* C22: fix_localization.main adds the line of a format pattern to a language
\* file only when the file does not contain it: a step of a fix_localization
\* run that adds the line to a file adds it once, to a file that did not
\* contain it, and a file that holds the line at most once holds it at most
\* once after every step of every run.
C22_Step ==
    \A n \in 1..Len(Langs) : \A j \in 1..Len(localization_patterns) :
        LET lang == Langs[n]
            line == pattern_line(lang, localization_patterns[j])
            was == Count(locFiles[lang].lines, line)
            is == Count(locFiles'[lang].lines, line)
        IN  /\ was <= 1 => is <= 1
            /\ (script = "fix_localization" /\ is > was) =>
                  /\ ~InContent(line, locFiles[lang].lines)
                  /\ is = 1

C22_PatternLineAtMostOnce == [][C22_Step]_vars

\* C22 witness: the second of two fix_localization runs has ended; the
\* English file holds two MARK lines and each format pattern once, the
\* Spanish file the line it held before the first run, once.
C22_Witness ==
    /\ script = "fix_localization"
    /\ pc = "exit"
    /\ result = "done"
    /\ runs = 1
    /\ Count(locFiles["en"].lines, Comment("Format Strings (Auto-generated)")) = 2
    /\ \A j \in 1..Len(localization_patterns) :
         Count(locFiles["en"].lines, pattern_line("en", localization_patterns[j])) = 1
    /\ Count(locFiles["es"].lines, Pair("%lld times", "%lld veces")) = 1

\* The keys of the pairs a file holds.
KeysOf(file) == {file.lines[i].key : i \in {j \in 1..Len(file.lines) : file.lines[j].k = "pair"}}

\* C27: after a run of localize_app that wrote the four files, each of them
\* holds the same keys: those read from the English file before the run and
\* the meaningful strings extracted; a key only the file of a target
\* language held before the run is in none of them.
C27_SameKeySet ==
    (LaBuilt /\ result = "done") =>
        LET keys == DOMAIN read_existing_translations(locBefore["en"])
                       \cup meaningful_strings(all_strings)
        IN  /\ \A lang \in Range(Langs) : KeysOf(locFiles[lang]) = keys
            /\ \A lang \in TargetLangs : \A other \in Range(Langs) :
                 KeysOf(locFiles[other]) \cap (ExistingBefore(lang) \ keys) = {}

\* C27 witness: the German file held "Frobnicate" before the run, which the
\* English file and the extracted strings did not; the four files hold the
\* key "Cancel" and no other.
C27_Witness ==
    /\ LaBuilt
    /\ result = "done"
    /\ "Frobnicate" \in ExistingBefore("de")
    /\ \A lang \in Range(Langs) : KeysOf(locFiles[lang]) = {"Cancel"}

\* C28: localize_app chooses the translation of an English key for a target
\* language by strict precedence: the value the file of the language held
\* for the key, else the entry of TRANSLATIONS, else the English text; the
\* table never replaces a value of the file.  The file written holds the
\* key with the value chosen.
C28_StrictPrecedence ==
    LaBuilt =>
      \A lang \in TargetLangs : \A P \in DOMAIN complete_translations["en"] :
        LET ex == read_existing_translations(locBefore[lang])
            chosen == IF P \in DOMAIN ex THEN ex[P]
                      ELSE IF P \in DOMAIN TRANSLATIONS[lang] THEN TRANSLATIONS[lang][P]
                      ELSE P
        IN  /\ complete_translations[lang][P] = chosen
            /\ LaWritten(lang) => HasLine(lang, Pair(P, chosen))
            /\ (LaWritten(lang) /\ P \in DOMAIN ex /\ P \in DOMAIN TRANSLATIONS[lang]
                   /\ ex[P] # TRANSLATIONS[lang][P]) =>
                  ~HasLine(lang, Pair(P, TRANSLATIONS[lang][P]))

\* C28 witness: German was written with the value its file held for
\* "Cancel", not the table's, with the table's value for "Text Style" and
\* with the English text for "cancel".
C28_Witness ==
    /\ LaWritten("de")
    /\ read_existing_translations(locBefore["de"]) = ("Cancel" :> "Stornieren")
    /\ HasLine("de", Pair("Cancel", "Stornieren"))
    /\ ~HasLine("de", Pair("Cancel", "Abbrechen"))
    /\ HasLine("de", Pair("Text Style", "Textstil"))
    /\ HasLine("de", Pair("cancel", "cancel"))

\* C29: for every mapping whose keys and values are not empty and hold no
\* double quote, reading the file write_localizable_file has written gives
\* the mapping back, and the file holds every key of the mapping in one
\* line, which stands in one category block, that of the key.
C29_RoundTrip ==
    \A lang \in Range(Langs) :
        LET m == complete_translations[lang]
            lines == locFiles[lang].lines
            plain(str) == str # "" /\ str # QuotePhrase
            at(key) == {i \in 1..Len(lines) : lines[i].k = "pair" /\ lines[i].key = key}
            marks(i) == {j \in 1..(i - 1) : lines[j].k = "comment"}
            block(i) == lines[CHOOSE j \in marks(i) : \A q \in marks(i) : q <= j].key
        IN  (\A key \in DOMAIN m : plain(key) /\ plain(m[key])) =>
              /\ lang \in DOMAIN read_back => read_back[lang] = m
              /\ locFiles[lang].exists =>
                   \A key \in DOMAIN m :
                      /\ Cardinality(at(key)) = 1
                      /\ \A i \in at(key) : block(i) = categories[CategoryOf(key)].name

\* C29 witness: a mapping of four keys of three categories, its values plain,
\* was written for German and read back.
C29_Witness ==
    /\ "de" \in DOMAIN read_back
    /\ read_back["de"] = complete_translations["de"]
    /\ Cardinality(DOMAIN read_back["de"]) = 4
    /\ read_back["de"]["Cancel"] # read_back["de"]["cancel"]
    /\ Len(locFiles["de"].lines) = 2 + 3 + 3 + 4

====
